---- MODULE Spec2Model ----
(***************************************************************************)
(* Deviation detection and compression pipeline of the SOP compliance      *)
(* analysis system.                                                        *)
(*                                                                         *)
(* The rule-evaluation engine (sequence_checker.py, rule_validator.py) is  *)
(* described by DEVIATION_DETECTION_EXPLAINED.md; the analysis layers      *)
(* (data_cleaner.py, statistical_analyzer.py, ml/*.py) by the Phase 1 and  *)
(* Phase 2 implementation notes; the Express backend (workflow, SOP and     *)
(* analytics controllers) by its JavaScript sources.  The specifications   *)
(* share the state:                                                        *)
(*   SpecDetect    one detection request followed by layer-1 cleaning      *)
(*   SpecBatch     one detection request with the logs of two cases        *)
(*   SpecClean     DataCleaner applied to a raw set, then to its output    *)
(*   SpecPipeline  the layered analyze-patterns orchestrator               *)
(*   SpecWorkers   per-case validation by concurrent workers               *)
(*   SpecSOP       concurrent processSOP requests for one SOP              *)
(*   SpecUpload    one workflow-log upload request                         *)
(*   SpecPatterns  analyzePatterns over a growing Deviation table          *)
(*   SpecAnalysis  repeated analysis runs over a fixed database            *)
(*   SpecBackend   uploads, analysis runs, deletions and compliance rate   *)
(***************************************************************************)
EXTENDS Integers, Sequences, FiniteSets, TLC

VARIABLES
    pc,          \* position of the request being served
    rules,       \* SOP rules of the detection request
    logs,        \* workflow logs of the detection request
    deviations,  \* deviations detected / handed to the analysis layers
    cleaned,     \* output of layer 1 (DataCleaner.clean_deviations)
    report,      \* cleaning report of layer 1
    recleaned,   \* result of cleaning the cleaned set once more
    config,      \* MLPipeline configuration and activation threshold
    stats,       \* output of layer 2 (StatisticalAnalyzer.analyze)
    ml,          \* cluster labels and anomaly flags of layer 3
    sample,      \* indices selected by the intelligent sampler
    payload,     \* response of the request being served
    sops,        \* SOP table of the backend (status and processed flag)
    now          \* clock of the backend database (DataTypes.NOW)

vars == <<pc, rules, logs, deviations, cleaned, report, recleaned,
          config, stats, ml, sample, payload, sops, now>>

Null == "null"
None == <<>>

----------------------------------------------------------------------------
(* Bounds of the model *)

MaxEvents == 3
MaxStepNumber == 3

(* Timing thresholds of rule_validator.py, in minutes *)
MinDurationMinutes == 60
MaxGapMinutes == 10080

----------------------------------------------------------------------------
(* Generic helpers *)

Min(a, b) == IF a <= b THEN a ELSE b
Max(a, b) == IF a >= b THEN a ELSE b

Range(s) == {s[i] : i \in 1..Len(s)}

RECURSIVE Flatten(_)
Flatten(ss) == IF ss = <<>> THEN <<>> ELSE Head(ss) \o Flatten(Tail(ss))

(* First position of x in s (0 when absent) *)
IndexOf(s, x) ==
    IF x \in Range(s) THEN CHOOSE i \in 1..Len(s) : s[i] = x /\ \A j \in 1..(i-1) : s[j] # x
    ELSE 0

(* s without repeated elements, first occurrences kept in order *)
RECURSIVE Distinct(_)
Distinct(s) ==
    IF s = <<>> THEN <<>>
    ELSE LET r == Distinct(SubSeq(s, 1, Len(s) - 1))
             x == s[Len(s)]
         IN IF x \in Range(r) THEN r ELSE Append(r, x)

----------------------------------------------------------------------------
(* Step vocabulary.  Step names are free text; the approval check looks    *)
(* for keywords in the lower-cased name.                                   *)

AR == "Application Received"
DV == "Document Verification"
CC == "Credit Check"
FA == "Final Approval"

SequenceSteps == {AR, DV, CC}
StepNames == {AR, DV, CC, FA}

(* The words of step.lower() *)
LowerWords(step) ==
    CASE step = AR -> {"application", "received"}
      [] step = DV -> {"document", "verification"}
      [] step = CC -> {"credit", "check"}
      [] step = FA -> {"final", "approval"}
      [] OTHER -> {}

(* keyword in step.lower() *)
KeywordIn(keyword, step) == keyword \in LowerWords(step)

----------------------------------------------------------------------------
(* Inputs of a detection request *)

CaseId == "CASE001"
OfficerId == "OFF123"

(* Gaps between consecutive events of a case, in minutes: half an hour     *)
(* (two of them make exactly one hour) and eight days.                     *)
Gaps == {30, 11520}

SeqRule(id, step, n) ==
    [id |-> id, rule_type |-> "sequence", step_number |-> n, step_name |-> step]

ApprovalRule ==
    [id |-> 4, rule_type |-> "approval", step_number |-> 0,
     step_name |-> "Manager approval required"]

(* The rule table of a request: a sequence rule for each step that has a   *)
(* step number (0: no rule), in rule-id order, and optionally the          *)
(* approval rule.                                                          *)
RulesFrom(f, withApproval) ==
    SelectSeq(<<SeqRule(1, AR, f[AR]), SeqRule(2, DV, f[DV]), SeqRule(3, CC, f[CC])>>,
              LAMBDA r : r.step_number > 0)
    \o (IF withApproval THEN <<ApprovalRule>> ELSE <<>>)

RuleInputs ==
    {RulesFrom(f, a) : f \in [SequenceSteps -> 0..MaxStepNumber], a \in BOOLEAN}

RECURSIVE TimeAt(_, _)
TimeAt(gaps, i) == IF i = 1 THEN 0 ELSE TimeAt(gaps, i - 1) + gaps[i - 1]

Log(step, t) ==
    [case_id |-> CaseId, officer_id |-> OfficerId, step_name |-> step, timestamp |-> t]

Reverse(s) == [i \in 1..Len(s) |-> s[Len(s) + 1 - i]]

(* The logs of a request: one case of 1..MaxEvents events in chronological *)
(* order; a case of two events is also delivered in reverse order.         *)
LogInputs ==
    UNION {
        UNION {
            { IF rev THEN Reverse([i \in 1..n |-> Log(names[i], TimeAt(gaps, i))])
                     ELSE [i \in 1..n |-> Log(names[i], TimeAt(gaps, i))]
              : rev \in (IF n = 2 THEN BOOLEAN ELSE {FALSE}) }
            : names \in [1..n -> StepNames], gaps \in [1..(n-1) -> Gaps] }
        : n \in 1..MaxEvents }

(* Requests with two cases.  Gaps of half an hour, exactly one hour,       *)
(* exactly seven days and eight days.                                      *)
OtherCaseId == "CASE002"

(* What a timestamp that cannot be parsed is read as *)
NoTimestamp == -1
BatchGaps == {30, 60, 10080, 11520}

CaseLog(case_id, step, t) ==
    [case_id |-> case_id, officer_id |-> OfficerId, step_name |-> step, timestamp |-> t]

(* The logs of one case: one event, or two events a gap apart *)
CaseEvents(case_id) ==
    {<<CaseLog(case_id, a, 0)>> : a \in {AR, FA}}
    \cup {<<CaseLog(case_id, a, 0), CaseLog(case_id, b, g)>> :
              a \in {AR, FA}, b \in {AR, FA}, g \in BatchGaps}

(* Malformed logs of the second case: no step name, no parseable timestamp *)
MalformedLogs ==
    {[case_id |-> OtherCaseId, officer_id |-> OfficerId, step_name |-> Null, timestamp |-> 0],
     [case_id |-> OtherCaseId, officer_id |-> OfficerId, step_name |-> DV, timestamp |-> NoTimestamp]}

(* The logs of both cases, alone or with a malformed log before or after   *)
BatchLogInputs ==
    UNION {{a \o b} \cup {<<x>> \o a \o b : x \in MalformedLogs}
                    \cup {a \o b \o <<x>> : x \in MalformedLogs}
           : a \in CaseEvents(CaseId), b \in CaseEvents(OtherCaseId)}

BatchRuleInputs ==
    {<<>>, <<SeqRule(1, AR, 1), SeqRule(2, DV, 2), SeqRule(3, CC, 3), ApprovalRule>>}

----------------------------------------------------------------------------
(* Deviation records; detected_at is the hour of day of the detection *)

Deviation(case_id, officer_id, type, severity, description) ==
    [case_id |-> case_id, officer_id |-> officer_id, deviation_type |-> type,
     severity |-> severity, description |-> description, detected_at |-> 9]

----------------------------------------------------------------------------
(* sequence_checker.py *)

RuleBefore(a, b) ==
    \/ a.step_number < b.step_number
    \/ a.step_number = b.step_number /\ a.id < b.id

RECURSIVE SortRules(_)
SortRules(rs) ==
    IF rs = <<>> THEN <<>>
    ELSE LET m == CHOOSE i \in 1..Len(rs) :
                      \A j \in 1..Len(rs) : j = i \/ RuleBefore(rs[i], rs[j])
         IN <<rs[m]>> \o SortRules(SubSeq(rs, 1, m - 1) \o SubSeq(rs, m + 1, Len(rs)))

(* Expected step order: the sequence rules sorted by step_number, ties by  *)
(* rule identity.                                                          *)
BuildExpectedSequence(sequence_rules) ==
    LET sorted == SortRules(sequence_rules)
    IN [i \in 1..Len(sorted) |-> sorted[i].step_name]

(* Stable sort of logs by timestamp *)
RECURSIVE SortByTimestamp(_)
SortByTimestamp(ls) ==
    IF ls = <<>> THEN <<>>
    ELSE LET m == CHOOSE i \in 1..Len(ls) :
                      /\ \A j \in 1..Len(ls) : ls[i].timestamp <= ls[j].timestamp
                      /\ \A j \in 1..(i-1) : ls[j].timestamp > ls[i].timestamp
         IN <<ls[m]>> \o SortByTimestamp(SubSeq(ls, 1, m - 1) \o SubSeq(ls, m + 1, Len(ls)))

(* Case ids in order of first appearance *)
Cases(ls) == Distinct([i \in 1..Len(ls) |-> ls[i].case_id])

CaseLogs(ls, case_id) == SortByTimestamp(SelectSeq(ls, LAMBDA l : l.case_id = case_id))

StepsOf(case_logs) == [i \in 1..Len(case_logs) |-> case_logs[i].step_name]

(* 1. missing steps: set(expected) - set(actual) *)
MissingSteps(expected, actual) ==
    SelectSeq(Distinct(expected), LAMBDA s : s \notin Range(actual))

(* The comparison of expected positions alone, a step outside the expected *)
(* vocabulary counting as position 0                                       *)
WrongOrderAtUnguarded(expected, actual, i) ==
    IndexOf(expected, actual[i]) > IndexOf(expected, actual[i + 1])

(* 2. wrong order: the positions i whose pair (actual[i], actual[i+1]) is  *)
(* made of expected steps and runs against the expected order              *)
WrongOrderAt(expected, actual, i) ==
    /\ actual[i] \in Range(expected)
    /\ actual[i + 1] \in Range(expected)
    /\ IndexOf(expected, actual[i]) > IndexOf(expected, actual[i + 1])

WrongOrderPositions(expected, actual) ==
    SelectSeq([i \in 1..(Len(actual) - 1) |-> i],
              LAMBDA i : WrongOrderAt(expected, actual, i))

(* Every actual step, the expected ones not taken out *)
UnexpectedStepsAll(expected, actual) == Distinct(actual)

(* 3. unexpected steps: set(actual) - set(expected) *)
UnexpectedSteps(expected, actual) ==
    SelectSeq(Distinct(actual), LAMBDA s : s \notin Range(expected))

CompareSequences(case_id, officer_id, expected, actual) ==
    LET missing == MissingSteps(expected, actual)
        wrong == WrongOrderPositions(expected, actual)
        unexpected == UnexpectedSteps(expected, actual)
    IN [i \in 1..Len(missing) |->
            Deviation(case_id, officer_id, "missing_step", "high",
                      <<"Missing", "required", "step:", missing[i]>>)]
       \o
       [i \in 1..Len(wrong) |->
            Deviation(case_id, officer_id, "wrong_sequence", "high",
                      <<"Wrong", "order:", actual[wrong[i] + 1], "before", actual[wrong[i]]>>)]
       \o
       [i \in 1..Len(unexpected) |->
            Deviation(case_id, officer_id, "unexpected_step", "medium",
                      <<"Unexpected", "step:", unexpected[i]>>)]

ExpectedOf(rs) ==
    BuildExpectedSequence(SelectSeq(rs, LAMBDA r : r.rule_type = "sequence"))

CheckSequence(ls, rs) ==
    LET expected == ExpectedOf(rs)
        cases == Cases(ls)
    IN Flatten([k \in 1..Len(cases) |->
            LET case_logs == CaseLogs(ls, cases[k])
            IN CompareSequences(cases[k], case_logs[1].officer_id,
                                expected, StepsOf(case_logs))])

----------------------------------------------------------------------------
(* rule_validator.py *)

HasApproval(keyword, case_logs) ==
    \E i \in 1..Len(case_logs) :
        /\ KeywordIn(keyword, case_logs[i].step_name)
        /\ KeywordIn("approval", case_logs[i].step_name)

(* The approval rules are extracted from the rule table, but the two       *)
(* approvals looked for are fixed: manager approval and final approval.    *)
CheckApprovalRules(case_id, case_logs, rs) ==
    LET approval_rules == SelectSeq(rs, LAMBDA r : r.rule_type = "approval")
        officer == case_logs[1].officer_id
    IN (IF ~HasApproval("manager", case_logs)
        THEN <<Deviation(case_id, officer, "missing_approval", "critical",
                         <<"Missing", "manager", "approval">>)>>
        ELSE <<>>)
       \o
       (IF ~HasApproval("final", case_logs)
        THEN <<Deviation(case_id, officer, "missing_approval", "critical",
                         <<"Missing", "final", "approval">>)>>
        ELSE <<>>)

(* Gaps between consecutive logs of the maximum or more *)
LongGapPositionsInclusive(case_logs) ==
    SelectSeq([i \in 1..(Len(case_logs) - 1) |-> i],
              LAMBDA i : case_logs[i + 1].timestamp - case_logs[i].timestamp >= MaxGapMinutes)

(* Gaps between consecutive logs that exceed the maximum *)
LongGapPositions(case_logs) ==
    SelectSeq([i \in 1..(Len(case_logs) - 1) |-> i],
              LAMBDA i : case_logs[i + 1].timestamp - case_logs[i].timestamp > MaxGapMinutes)

CheckTimingRules(case_id, case_logs, rs) ==
    LET officer == case_logs[1].officer_id
        duration == case_logs[Len(case_logs)].timestamp - case_logs[1].timestamp
        long == LongGapPositions(case_logs)
    IN (IF duration < MinDurationMinutes
        THEN <<Deviation(case_id, officer, "timing_violation", "medium",
                         <<"Process", "too", "rushed">>)>>
        ELSE <<>>)
       \o
       [i \in 1..Len(long) |->
            Deviation(case_id, officer, "timing_violation", "low",
                      <<"Long", "delay", "between", "steps">>)]

ValidateAll(ls, rs) ==
    LET cases == Cases(ls)
    IN Flatten([k \in 1..Len(cases) |->
            LET case_logs == CaseLogs(ls, cases[k])
            IN CheckApprovalRules(cases[k], case_logs, rs)
               \o CheckTimingRules(cases[k], case_logs, rs)])

(* A log with its case, step name and timestamp present and parseable *)
ValidLog(l) == l.case_id # Null /\ l.step_name # Null /\ l.timestamp # NoTimestamp

(* The logs up to the first malformed one *)
ValidLogsUntilMalformed(ls) ==
    SubSeq(ls, 1, Cardinality({i \in 1..Len(ls) : \A j \in 1..i : ValidLog(ls[j])}))

(* Malformed logs are skipped *)
ValidLogs(ls) == SelectSeq(ls, ValidLog)

(* deviation_detector.py, POST /detect *)
DetectAll(ls, rs) ==
    CheckSequence(ValidLogs(ls), rs) \o ValidateAll(ValidLogs(ls), rs)

(* The number of logs skipped, reported with the deviations *)
InputReport(ls) == [skipped_records |-> Len(ls) - Len(ValidLogs(ls))]

----------------------------------------------------------------------------
(* data_cleaner.py: layer 1 *)

SeverityLevels == {"low", "medium", "high", "critical"}

RequiredFields == {"case_id", "officer_id", "deviation_type", "description"}

HasRequiredFields(d) == \A f \in RequiredFields : d[f] # Null

(* Whitespace normalisation: a description is a sequence of words, the     *)
(* empty word standing for surplus whitespace.                             *)
NormalizeText(words) == SelectSeq(words, LAMBDA w : w # "")

(* Known variants are mapped to their level, anything else is left as is *)
NormalizeSeverityKnownOnly(sev) ==
    CASE sev = "crit" -> "critical"
      [] OTHER -> sev

(* Known variants are mapped to their level, anything else to "medium" *)
NormalizeSeverity(sev) ==
    CASE sev \in SeverityLevels -> sev
      [] sev = "crit" -> "critical"
      [] OTHER -> "medium"

SeverityFixed(sev) == sev \notin SeverityLevels

(* Deviation type normalisation: a free-text variant is mapped to its type *)
NormalizeType(type) ==
    CASE type = "Missing Step" -> "missing_step"
      [] OTHER -> type

(* A key of case and officer only *)
DedupKeyCaseOfficer(d) == <<d.case_id, d.officer_id>>

(* Duplicates are records with the same case, officer and deviation type *)
DedupKey(d) == <<d.case_id, d.officer_id, d.deviation_type>>

(* A record after validation and normalisation *)
Normalized(d) ==
    [case_id |-> d.case_id, officer_id |-> d.officer_id,
     deviation_type |-> NormalizeType(d.deviation_type),
     severity |-> NormalizeSeverity(d.severity),
     description |-> NormalizeText(d.description),
     detected_at |-> d.detected_at]

(* The first record of every key, with the number of records of its key *)
RemoveDuplicates(ds) ==
    LET first == SelectSeq([i \in 1..Len(ds) |-> i],
                           LAMBDA i : \A j \in 1..(i-1) : DedupKey(ds[j]) # DedupKey(ds[i]))
    IN [k \in 1..Len(first) |->
            [case_id |-> ds[first[k]].case_id, officer_id |-> ds[first[k]].officer_id,
             deviation_type |-> ds[first[k]].deviation_type,
             severity |-> ds[first[k]].severity,
             description |-> ds[first[k]].description,
             detected_at |-> ds[first[k]].detected_at,
             duplicate_count |->
                 Cardinality({j \in 1..Len(ds) : DedupKey(ds[j]) = DedupKey(ds[first[k]])})]]

CleaningReport(raw, valid, unique) ==
    [original_count |-> Len(raw),
     duplicates_removed |-> Len(valid) - Len(unique),
     invalid_types_fixed |->
         Len(SelectSeq(valid, LAMBDA d : SeverityFixed(d.severity)
                                         \/ NormalizeType(d.deviation_type) # d.deviation_type)),
     missing_values_handled |-> Len(raw) - Len(valid),
     final_count |-> Len(unique)]

(* Duplicates looked for among the records as received, before they are    *)
(* normalised.                                                             *)
CleanDeviationsDedupFirst(raw) ==
    LET valid == SelectSeq(raw, HasRequiredFields)
        unique == RemoveDuplicates(valid)
        normal == [i \in 1..Len(unique) |->
                      [duplicate_count |-> unique[i].duplicate_count]
                      @@ Normalized(unique[i])]
    IN [deviations |-> normal, report |-> CleaningReport(raw, valid, unique)]

(* DataCleaner.clean_deviations: the cleaned deviations and the report.    *)
(* Records lacking a required field are dropped, the others normalised,    *)
(* and duplicates removed.                                                 *)
CleanDeviations(raw) ==
    LET valid == SelectSeq(raw, HasRequiredFields)
        normal == [i \in 1..Len(valid) |-> Normalized(valid[i])]
        unique == RemoveDuplicates(normal)
    IN [deviations |-> unique, report |-> CleaningReport(raw, valid, unique)]

(* The weights of the three defect ratios, in units of 1/WeightUnit: any   *)
(* positive weights that sum to one                                        *)
WeightUnit == 4

QualityWeightInputs ==
    {w \in [{"duplicates", "fixed", "missing"} -> 1..WeightUnit] :
        w["duplicates"] + w["fixed"] + w["missing"] = WeightUnit}

(* The three defect ratios added up without weights *)
QualityScoreUnweighted(w, rep) ==
    IF rep.original_count = 0 THEN 100
    ELSE 100 - (100 * (rep.duplicates_removed + rep.invalid_types_fixed
                        + rep.missing_values_handled)) \div rep.original_count

(* 100 less the weighted combination of duplicates removed, fields fixed   *)
(* and records with missing required fields, each over the raw count; an   *)
(* empty set has no defect                                                 *)
QualityScore(w, rep) ==
    IF rep.original_count = 0 THEN 100
    ELSE 100 - (100 * (w["duplicates"] * rep.duplicates_removed
                        + w["fixed"] * rep.invalid_types_fixed
                        + w["missing"] * rep.missing_values_handled))
                   \div (WeightUnit * rep.original_count)

Grade(score) ==
    IF score >= 90 THEN "A"
    ELSE IF score >= 80 THEN "B"
    ELSE IF score >= 70 THEN "C"
    ELSE IF score >= 60 THEN "D"
    ELSE "F"

(* DataCleaner.get_data_quality_score *)
DataQualityScore(w, rep) ==
    [score |-> QualityScore(w, rep), grade |-> Grade(QualityScore(w, rep))]

----------------------------------------------------------------------------
(* Raw deviation sets handed to the cleaner *)

MaxRaw == 3

RawDeviation(case_id, type, sev, desc) ==
    [case_id |-> case_id, officer_id |-> OfficerId, deviation_type |-> type,
     severity |-> sev, description |-> desc, detected_at |-> 9]

(* One record without a case id, and every combination of type, severity   *)
(* and description spelling for the case.                                  *)
RawRecords ==
    {RawDeviation(Null, "missing_step", "critical", <<"Missing", "step">>)}
    \cup
    {RawDeviation(CaseId, t, s, d) :
        t \in {"missing_step", "Missing Step", "timing_violation"},
        s \in {"critical", "crit", "urgent"},
        d \in {<<"Missing", "step">>, <<"Missing", "", "step">>}}

RawInputs == UNION {[1..n -> RawRecords] : n \in 0..MaxRaw}

----------------------------------------------------------------------------
(* statistical_analyzer.py: layer 2 *)

TimePeriods == {"morning", "afternoon", "evening", "night"}

TimePeriod(hour) ==
    IF hour >= 6 /\ hour < 12 THEN "morning"
    ELSE IF hour >= 12 /\ hour < 18 THEN "afternoon"
    ELSE IF hour >= 18 THEN "evening"
    ELSE "night"

(* Counts of the levels other than "medium" *)
SeverityCountsNoMedium(ds) ==
    [lv \in SeverityLevels |->
        IF lv = "medium" THEN 0 ELSE Cardinality({i \in 1..Len(ds) : ds[i].severity = lv})]

SeverityCounts(ds) ==
    [lv \in SeverityLevels |-> Cardinality({i \in 1..Len(ds) : ds[i].severity = lv})]

(* StatisticalAnalyzer.analyze *)
Analyze(ds) ==
    [overview |->
        [total_deviations |-> Len(ds),
         unique_cases |-> Cardinality({d.case_id : d \in Range(ds)}),
         unique_officers |-> Cardinality({d.officer_id : d \in Range(ds)})],
     severity_distribution |-> [counts |-> SeverityCounts(ds)],
     temporal_patterns |->
        [periods |-> [p \in TimePeriods |->
                         Cardinality({i \in 1..Len(ds) : TimePeriod(ds[i].detected_at) = p})]]]

----------------------------------------------------------------------------
(* ml/clustering.py and ml/anomaly_detector.py: their results depend on    *)
(* the feature vectors, which are not modelled; every labelling they can   *)
(* return is considered.                                                   *)

Noise == -1

(* The bound on the number of clusters of an acceptable DBSCAN result; the *)
(* upper bound is configured, and small enough here for populations of a   *)
(* few deviations to exceed it                                             *)
MinClusters == 2
MaxClusters == 2
KMeansClusters == 10

ClusterIds(labels) == Range(labels) \ {Noise}

(* DBSCAN: noise or a cluster for each deviation, the clusters numbered in *)
(* order of discovery                                                      *)
DbscanLabellings(n) ==
    {l \in [1..n -> {Noise} \cup 0..(n - 1)] :
        \A i \in 1..n : l[i] > 0 => \E j \in 1..(i - 1) : l[j] = l[i] - 1}

(* K-means: min(KMeansClusters, n) non-empty clusters and no noise *)
KMeansLabellings(n) ==
    {l \in [1..n -> 0..(Min(KMeansClusters, n) - 1)] :
        /\ \A c \in 0..(Min(KMeansClusters, n) - 1) : \E i \in 1..n : l[i] = c
        /\ \A i \in 1..n : l[i] > 0 => \E j \in 1..(i - 1) : l[j] = l[i] - 1}

Degenerate(labels) ==
    \/ Cardinality(ClusterIds(labels)) < MinClusters
    \/ Cardinality(ClusterIds(labels)) > MaxClusters

(* The DBSCAN result kept whatever its number of clusters *)
ClusterWithoutFallback(primary, fallback) ==
    [labels |-> primary, method |-> "DBSCAN", primary |-> primary]

(* The DBSCAN result, or the K-means result when DBSCAN's is degenerate *)
Cluster(primary, fallback) ==
    IF Degenerate(primary)
    THEN [labels |-> fallback, method |-> "K-means", primary |-> primary]
    ELSE [labels |-> primary, method |-> "DBSCAN", primary |-> primary]

(* The clusterings of n deviations *)
Clusterings(n) ==
    {Cluster(p, f) : p \in DbscanLabellings(n), f \in KMeansLabellings(n)}

(* Isolation forest: the anomaly flag of each deviation *)
AnomalyFlaggings(n) == [1..n -> BOOLEAN]

----------------------------------------------------------------------------
(* ml/intelligent_sampler.py *)

MaxOfficerBackfill == 5

RECURSIVE SortedSeq(_)
SortedSeq(S) ==
    IF S = {} THEN <<>>
    ELSE LET m == CHOOSE x \in S : \A y \in S : x <= y
         IN <<m>> \o SortedSeq(S \ {m})

RECURSIVE SumOver(_, _)
SumOver(f, S) ==
    IF S = {} THEN 0
    ELSE LET c == CHOOSE x \in S : TRUE IN f[c] + SumOver(f, S \ {c})

(* Part 1, cut down to the target size *)
IncludeAnomaliesUpToTarget(flags, target) ==
    LET all == SortedSeq({i \in DOMAIN flags : flags[i]})
    IN Range(SubSeq(all, 1, Min(target, Len(all))))

(* Part 1: all anomalies, whatever the target size *)
IncludeAnomalies(flags, target) == {i \in DOMAIN flags : flags[i]}

Members(labels, c) == {i \in DOMAIN labels : labels[i] = c}

(* One representative for every cluster, whatever the budget *)
ClusterQuotasOnePerCluster(labels, remaining) ==
    {[c \in ClusterIds(labels) |-> Max(1, (remaining * Cardinality(Members(labels, c)))
                                         \div Cardinality(DOMAIN labels))]}

(* Part 2: the remaining budget shared among the clusters in proportion to *)
(* their sizes, each share rounded down or up, the budget not exceeded     *)
ClusterQuotas(labels, remaining) ==
    LET ids == ClusterIds(labels)
        total == Cardinality({i \in DOMAIN labels : labels[i] # Noise})
        share(c) == remaining * Cardinality(Members(labels, c))
    IN {q \in [ids -> 0..remaining] :
            /\ \A c \in ids :
                  \/ q[c] = share(c) \div total
                  \/ share(c) % total # 0 /\ q[c] = share(c) \div total + 1
            /\ SumOver(q, ids) <= remaining}

(* The representatives of a quota: from each cluster as many unselected    *)
(* members as its quota, or all of them if there are fewer                 *)
ClusterPicks(labels, selected, remaining) ==
    UNION {
        {P \in SUBSET {i \in DOMAIN labels : labels[i] # Noise /\ i \notin selected} :
            \A c \in ClusterIds(labels) :
                Cardinality(P \cap Members(labels, c))
                    = Min(q[c], Cardinality(Members(labels, c) \ selected))}
        : q \in ClusterQuotas(labels, remaining) }

(* No deviation added *)
BackfillsNone(values, selected, limit) == {{}}

(* Parts 3 to 5: for each value of an attribute (values[i] is that of      *)
(* deviation i) that occurs in the population and not in the selection,    *)
(* one deviation with that value (for at most `limit` values)              *)
Backfills(values, selected, limit) ==
    LET present == Range(values)
        covered == {values[i] : i \in selected}
        missing == present \ covered
    IN UNION {
           {{f[v] : v \in chosen} :
               f \in {g \in [chosen -> DOMAIN values] : \A v \in chosen : values[g[v]] = v}}
           : chosen \in {M \in SUBSET missing :
                             Cardinality(M) = Min(limit, Cardinality(missing))} }

SeverityOf(ds) == [i \in 1..Len(ds) |-> ds[i].severity]
PeriodOf(ds) == [i \in 1..Len(ds) |-> TimePeriod(ds[i].detected_at)]
OfficerOf(ds) == [i \in 1..Len(ds) |-> ds[i].officer_id]

SampleResult(a, c, s, t, o) ==
    [selected |-> SortedSeq(a) \o SortedSeq(c) \o SortedSeq(s) \o SortedSeq(t) \o SortedSeq(o),
     composition |-> [anomalies |-> Cardinality(a),
                      cluster_representatives |-> Cardinality(c),
                      severity_coverage |-> Cardinality(s),
                      temporal_coverage |-> Cardinality(t),
                      officer_coverage |-> Cardinality(o)]]

(* The whole target size left for the clusters *)
RemainingBudgetWholeTarget(target, taken) == target

(* What the anomalies leave of the target size *)
RemainingBudget(target, taken) == Max(0, target - taken)

(* IntelligentSampler: the samples the five parts can produce *)
Samples(ds, labels, flags, target) ==
    LET a == IncludeAnomalies(flags, target)
        remaining == RemainingBudget(target, Cardinality(a))
    IN UNION { UNION { UNION {
           {SampleResult(a, c, s, t, o) :
               o \in Backfills(OfficerOf(ds), a \cup c \cup s \cup t, MaxOfficerBackfill)}
           : t \in Backfills(PeriodOf(ds), a \cup c \cup s, Cardinality(TimePeriods)) }
           : s \in Backfills(SeverityOf(ds), a \cup c, Cardinality(SeverityLevels)) }
           : c \in ClusterPicks(labels, a, remaining) }

----------------------------------------------------------------------------
(* ml/ml_pipeline.py and the analyze-patterns orchestrator *)

MLStages == <<"feature_engineering", "clustering", "anomaly_detection", "sampling">>

(* ML is skipped for a dataset of fewer than min_deviations deviations *)
MLActivatedAbove(count, cfg) == count > cfg.min_deviations

MLActivated(count, cfg) == count >= cfg.min_deviations

(* sample size / cleaned population size *)
CompressionRatioInverted(original, selected) ==
    IF original = 0 THEN 0 ELSE (10 * selected) \div original

(* compression ratio, in tenths: cleaned population size / sample size *)
CompressionRatio(original, selected) ==
    IF selected = 0 THEN 0 ELSE (10 * original) \div selected

LabelledDeviation(d, cluster, is_anomaly) ==
    [deviation |-> d, ml_labels |-> [cluster |-> cluster, is_anomaly |-> is_anomaly]]

----------------------------------------------------------------------------
(* Requests to analyze-patterns *)

MaxPopulation == 3
MaxTarget == 2
MaxThreshold == 2

PopulationRecord(k, sev, hour, officer) ==
    [case_id |-> <<"CASE", k>>, officer_id |-> officer, deviation_type |-> "missing_step",
     severity |-> sev, description |-> <<"Missing", "step">>, detected_at |-> hour]

(* n deviations of distinct cases, and the same with the last one repeated *)
PopulationInputs ==
    LET base == UNION {
            {[k \in 1..n |-> PopulationRecord(k, a[k][1], a[k][2], a[k][3])] :
                a \in [1..n -> {"critical", "medium"} \X {9, 2} \X {OfficerId, "OFF456"}]}
            : n \in 0..MaxPopulation}
    IN base \cup {Append(p, p[Len(p)]) : p \in {x \in base : Len(x) \in 1..(MaxPopulation - 1)}}

(* contamination, in percent *)
DefaultContamination == 10

ConfigInputs ==
    {[target_sample_size |-> t, contamination |-> c, min_deviations |-> m] :
        t \in (-1)..MaxTarget, c \in {0, DefaultContamination}, m \in 2..MaxThreshold}

(* A configuration that names only the target size as invalid *)
ConfigErrorTargetOnly(cfg) ==
    IF cfg.target_sample_size < 0 THEN "target_sample_size must not be negative"
    ELSE Null

(* The reason for which a configuration is rejected, Null for a valid one *)
ConfigError(cfg) ==
    IF cfg.target_sample_size < 0 THEN "target_sample_size must not be negative"
    ELSE IF cfg.contamination <= 0 THEN "contamination must be positive"
    ELSE Null

----------------------------------------------------------------------------
(* Actions shared by the specifications *)

(* POST /detect: both validators run over the request's logs *)
DetectDeviations ==
    /\ pc = "request"
    /\ deviations' = DetectAll(logs, rules)
    /\ payload' = InputReport(logs)
    /\ pc' = "detected"
    /\ UNCHANGED <<sops, now, rules, logs, cleaned, report, recleaned, config, stats, ml, sample>>

(* Layer 1 of analyze-patterns *)
CleanLayer ==
    /\ pc \in {"detected", "raw", "received"}
    /\ pc = "received" => ConfigError(config) = Null
    /\ cleaned' = CleanDeviations(deviations).deviations
    /\ report' = CleanDeviations(deviations).report
    /\ pc' = "cleaned"
    /\ UNCHANGED <<sops, now, rules, logs, deviations, recleaned, config, stats, ml, sample, payload>>

(* The cleaner applied to its own output *)
ReClean ==
    /\ pc = "cleaned"
    /\ recleaned' = CleanDeviations(cleaned)
    /\ pc' = "recleaned"
    /\ UNCHANGED <<sops, now, rules, logs, deviations, cleaned, report, config, stats, ml, sample, payload>>

----------------------------------------------------------------------------
(* SpecDetect: one detection request, then layer-1 cleaning of its result *)

InitDetect ==
    /\ pc = "request"
    /\ rules \in RuleInputs
    /\ logs \in LogInputs
    /\ deviations = None /\ cleaned = None /\ report = None /\ recleaned = None
    /\ config = None /\ stats = None /\ ml = None /\ sample = None /\ payload = None /\ sops = None /\ now = None

NextDetect == DetectDeviations \/ CleanLayer

SpecDetect == InitDetect /\ [][NextDetect]_vars

(* SpecBatch: one detection request with the logs of two cases *)

InitBatch ==
    /\ pc = "request"
    /\ rules \in BatchRuleInputs
    /\ logs \in BatchLogInputs
    /\ deviations = None /\ cleaned = None /\ report = None /\ recleaned = None
    /\ config = None /\ stats = None /\ ml = None /\ sample = None /\ payload = None /\ sops = None /\ now = None

NextBatch == DetectDeviations \/ CleanLayer

SpecBatch == InitBatch /\ [][NextBatch]_vars

(* SpecClean: a raw deviation set cleaned, and its output cleaned again *)

InitClean ==
    /\ pc = "raw"
    /\ deviations \in RawInputs
    /\ rules = None /\ logs = None
    /\ cleaned = None /\ report = None /\ recleaned = None
    /\ config = None /\ stats = None /\ ml = None /\ sample = None /\ payload = None /\ sops = None /\ now = None

NextClean == CleanLayer \/ ReClean

SpecClean == InitClean /\ [][NextClean]_vars

(* SpecPipeline: one analyze-patterns request through the four layers *)

(* An invalid configuration: the request is rejected before layer 1 *)
Reject ==
    /\ pc = "received"
    /\ ConfigError(config) # Null
    /\ payload' = [rejected |-> TRUE, reason |-> ConfigError(config)]
    /\ pc' = "rejected"
    /\ UNCHANGED <<sops, now, rules, logs, deviations, cleaned, report, recleaned, config, stats, ml, sample>>

(* Layer 2: statistics of all cleaned deviations *)
StatisticalLayer ==
    /\ pc = "cleaned"
    /\ stats' = Analyze(cleaned)
    /\ pc' = "analyzed"
    /\ UNCHANGED <<sops, now, rules, logs, deviations, cleaned, report, recleaned, config, ml, sample, payload>>

(* Layer 3 skipped: the dataset is too small *)
SkipML ==
    /\ pc = "analyzed"
    /\ ~MLActivated(Len(cleaned), config)
    /\ ml' = [ml_applied |-> FALSE, stages |-> <<>>]
    /\ sample' = [selected |-> [i \in 1..Len(cleaned) |-> i], composition |-> None]
    /\ pc' = "ml_done"
    /\ UNCHANGED <<sops, now, rules, logs, deviations, cleaned, report, recleaned, config, stats, payload>>

(* Layer 3: MLPipeline.analyze *)
RunML ==
    /\ pc = "analyzed"
    /\ MLActivated(Len(cleaned), config)
    /\ \E cl \in Clusterings(Len(cleaned)), flags \in AnomalyFlaggings(Len(cleaned)) :
          /\ ml' = [ml_applied |-> TRUE, stages |-> MLStages,
                    labels |-> cl.labels, method |-> cl.method,
                    primary_labels |-> cl.primary, flags |-> flags]
          /\ sample' \in Samples(cleaned, cl.labels, flags, config.target_sample_size)
    /\ pc' = "ml_done"
    /\ UNCHANGED <<sops, now, rules, logs, deviations, cleaned, report, recleaned, config, stats, payload>>

MLSummary ==
    IF ml.ml_applied
    THEN [ml_applied |-> TRUE,
          original_count |-> Len(cleaned),
          selected_count |-> Len(sample.selected),
          compression_ratio |-> CompressionRatio(Len(cleaned), Len(sample.selected)),
          clusters_found |-> Cardinality(ClusterIds(ml.labels)),
          anomalies_detected |-> Cardinality({i \in DOMAIN ml.flags : ml.flags[i]}),
          clustering_method |-> ml.method,
          sampling_composition |-> sample.composition]
    ELSE [ml_applied |-> FALSE]

(* The response: the deviations forwarded to layer 4 and the summaries *)
Respond ==
    /\ pc = "ml_done"
    /\ \E w \in QualityWeightInputs : payload' =
          [deviations |->
               [k \in 1..Len(sample.selected) |->
                   IF ml.ml_applied
                   THEN LabelledDeviation(cleaned[sample.selected[k]],
                                          ml.labels[sample.selected[k]],
                                          ml.flags[sample.selected[k]])
                   ELSE cleaned[sample.selected[k]]],
           data_quality |-> DataQualityScore(w, report),
           statistical_summary |->
               [total_analyzed |-> stats.overview.total_deviations,
                severity_distribution |-> stats.severity_distribution],
           ml_summary |-> MLSummary]
    /\ pc' = "done"
    /\ UNCHANGED <<sops, now, rules, logs, deviations, cleaned, report, recleaned, config, stats, ml, sample>>

InitPipeline ==
    /\ pc = "received"
    /\ deviations \in PopulationInputs
    /\ config \in ConfigInputs
    /\ rules = None /\ logs = None
    /\ cleaned = None /\ report = None /\ recleaned = None
    /\ stats = None /\ ml = None /\ sample = None /\ payload = None /\ sops = None /\ now = None

NextPipeline == Reject \/ CleanLayer \/ StatisticalLayer \/ SkipML \/ RunML \/ Respond

SpecPipeline == InitPipeline /\ [][NextPipeline]_vars

----------------------------------------------------------------------------
(* Properties of detection (SpecDetect) *)

Detected == pc \in {"detected", "cleaned"}

OfType(ds, type) == SelectSeq(ds, LAMBDA d : d.deviation_type = type)

SequenceTypes == {"missing_step", "wrong_sequence", "unexpected_step"}

ExpectedNow == ExpectedOf(rules)
ActualNow == StepsOf(SortByTimestamp(logs))

ReportedMissing == {d.description[4] : d \in Range(OfType(deviations, "missing_step"))}
ReportedUnexpected == {d.description[3] : d \in Range(OfType(deviations, "unexpected_step"))}

ScenarioARules == <<SeqRule(1, AR, 1), SeqRule(2, DV, 2), SeqRule(3, CC, 3), ApprovalRule>>
ScenarioALogs == <<Log(AR, 0), Log(FA, 30)>>

(* C3: Scenario A yields exactly five deviations: missing_step for         *)
(* Document Verification, Credit Check and Manager Approval in that order, *)
(* one critical missing_approval and one "too rushed" timing_violation,    *)
(* and nothing else.                                                       *)
C3_ScenarioA ==
    (pc = "detected" /\ rules = ScenarioARules /\ logs = ScenarioALogs) =>
        /\ Len(deviations) = 5
        /\ [i \in 1..5 |-> deviations[i].deviation_type]
             = <<"missing_step", "missing_step", "missing_step",
                 "missing_approval", "timing_violation">>
        /\ [i \in 1..3 |-> deviations[i].description[4]]
             = <<DV, CC, "Manager Approval">>
        /\ deviations[4].severity = "critical"
        /\ deviations[5].description = <<"Process", "too", "rushed">>

(* C6: the steps reported missing and the steps reported unexpected are    *)
(* disjoint, and neither contains a step that is both expected and actual. *)
C6_MissingUnexpectedDisjoint ==
    Detected =>
        /\ ReportedMissing \cap ReportedUnexpected = {}
        /\ ReportedMissing \cap (Range(ExpectedNow) \cap Range(ActualNow)) = {}
        /\ ReportedUnexpected \cap (Range(ExpectedNow) \cap Range(ActualNow)) = {}

C6_Witness ==
    /\ pc = "detected"
    /\ ReportedMissing # {}
    /\ ReportedUnexpected # {}
    /\ Range(ExpectedNow) \cap Range(ActualNow) # {}

(* The adjacent pairs of the actual sequence that run against the expected *)
(* order, both steps being expected ones                                   *)
OutOfOrderPairs ==
    {i \in 1..(Len(ActualNow) - 1) :
        \E j, k \in 1..Len(ExpectedNow) :
            /\ ExpectedNow[j] = ActualNow[i]
            /\ ExpectedNow[k] = ActualNow[i + 1]
            /\ j > k}

NthOutOfOrderPair(n) ==
    CHOOSE i \in OutOfOrderPairs : Cardinality({j \in OutOfOrderPairs : j < i}) = n - 1

TypesOf(ds) == {d.deviation_type : d \in Range(ds)}

(* A case of one event for which each of the three checks reports one      *)
(* deviation                                                               *)
OnePerCheck ==
    /\ Len(logs) = 1
    /\ Len(SelectSeq(deviations, LAMBDA d : d.deviation_type \in SequenceTypes)) = 1
    /\ Len(OfType(deviations, "missing_approval")) = 1
    /\ Len(OfType(deviations, "timing_violation")) = 1

RequiredKeywords(rule) ==
    IF rule = ApprovalRule THEN {"manager", "approval"} ELSE {}

KeywordsCoOccur(keywords) ==
    \E i \in 1..Len(logs) : \A k \in keywords : KeywordIn(k, logs[i].step_name)

ApprovalRulesNow == SelectSeq(rules, LAMBDA r : r.rule_type = "approval")

(* C18 as stated: the approval check is driven by the approval rules: one  *)
(* critical missing_approval for each approval rule whose keywords         *)
(* co-occur in no step name of the case, and none without approval rules.  *)
C18_ApprovalDataDriven ==
    Detected =>
        /\ Len(OfType(deviations, "missing_approval"))
              = Len(SelectSeq(ApprovalRulesNow,
                              LAMBDA r : ~KeywordsCoOccur(RequiredKeywords(r))))
        /\ ApprovalRulesNow = <<>> => OfType(deviations, "missing_approval") = <<>>
        /\ \A i \in 1..Len(deviations) :
              deviations[i].deviation_type = "missing_approval"
                  => deviations[i].severity = "critical"

----------------------------------------------------------------------------
(* Properties of cleaning (SpecClean) *)

----------------------------------------------------------------------------
(* Properties of the pipeline (SpecPipeline) *)

Sampled == pc \in {"ml_done", "done"} /\ ml.ml_applied

Anomalies == {i \in DOMAIN ml.flags : ml.flags[i]}

Selected == Range(sample.selected)

Backfilled ==
    sample.composition.severity_coverage + sample.composition.temporal_coverage
        + sample.composition.officer_coverage

(* C1: every deviation flagged as an anomaly is in the sampler's output,   *)
(* whatever the target size, the number of anomalies, the clustering and   *)
(* the backfill; and it is forwarded in the response with its flag.        *)
C1_AllAnomaliesSampled ==
    /\ Sampled => Anomalies \subseteq Selected
    /\ (pc = "done" /\ ml.ml_applied) =>
          \A i \in Anomalies :
              \E k \in 1..Len(payload.deviations) :
                  payload.deviations[k] = LabelledDeviation(cleaned[i], ml.labels[i], TRUE)

(* More anomalies than the target size, and a backfill besides *)
C1_Witness ==
    /\ Sampled
    /\ Cardinality(Anomalies) > config.target_sample_size
    /\ config.target_sample_size > 0
    /\ Backfilled > 0

C4_MLActivation ==
    pc = "done" =>
        /\ payload.ml_summary.ml_applied <=> Len(cleaned) >= config.min_deviations
        /\ payload.ml_summary.ml_applied => ml.stages = MLStages
        /\ ~payload.ml_summary.ml_applied =>
              /\ ml.stages = <<>>
              /\ payload.deviations = cleaned

(* A population exactly at the threshold, and one below it only after      *)
(* cleaning: both responses are seen in the course of the behaviours, the  *)
(* first is described here                                                 *)
C4_Witness ==
    /\ pc = "done"
    /\ Len(cleaned) = config.min_deviations
    /\ payload.ml_summary.ml_applied
    /\ ml.stages = MLStages

(* C5: the counts of the severity distribution sum to the size of the      *)
(* cleaned population, not to the size of the forwarded sample.            *)
C5_SeverityCountsSumToPopulation ==
    pc \in {"analyzed", "ml_done", "done"} =>
        /\ SumOver(stats.severity_distribution.counts, SeverityLevels) = Len(cleaned)
        /\ pc = "done" =>
              SumOver(payload.statistical_summary.severity_distribution.counts, SeverityLevels) = Len(cleaned)

(* A response whose sample is smaller than the cleaned population, which   *)
(* has deviations of two severities                                        *)
C5_Witness ==
    /\ pc = "done"
    /\ Len(payload.deviations) < Len(cleaned)
    /\ payload.statistical_summary.severity_distribution.counts["medium"] > 0
    /\ payload.statistical_summary.severity_distribution.counts["critical"] > 0

----------------------------------------------------------------------------
(* Properties of a detection request with two cases (SpecBatch) *)

OfCase(ds, case_id) == SelectSeq(ds, LAMBDA d : d.case_id = case_id)

WellFormedLogsOf(case_id) ==
    SelectSeq(logs, LAMBDA l : l.step_name # Null /\ l.timestamp >= 0 /\ l.case_id = case_id)

MalformedCount ==
    Cardinality({i \in 1..Len(logs) : logs[i].step_name = Null \/ logs[i].timestamp < 0})

C13_ClusteringFallback ==
    Sampled =>
        LET k == Cardinality(Range(ml.primary_labels) \ {Noise})
            n == Len(cleaned)
        IN /\ (k < MinClusters \/ k > MaxClusters) =>
                 /\ ml.method = "K-means"
                 /\ \A i \in 1..n : ml.labels[i] # Noise
                 /\ Cardinality(Range(ml.labels)) = Min(KMeansClusters, n)
           /\ (k >= MinClusters /\ k <= MaxClusters) =>
                 /\ ml.method = "DBSCAN"
                 /\ ml.labels = ml.primary_labels
           /\ pc = "done" =>
                 /\ payload.ml_summary.ml_applied
                 /\ payload.ml_summary.clustering_method = ml.method
                 /\ payload.ml_summary.clusters_found = Cardinality(Range(ml.labels) \ {Noise})
                 /\ DOMAIN payload = {"deviations", "data_quality", "statistical_summary", "ml_summary"}

(* A response after DBSCAN found more clusters than the bound allows *)
C13_Witness ==
    /\ pc = "done"
    /\ ml.ml_applied
    /\ Cardinality(Range(ml.primary_labels) \ {Noise}) > MaxClusters
    /\ payload.ml_summary.clustering_method = "K-means"

(* Scenario B is a population with more anomalies than the target size     *)
(* (800 deviations, 80 anomalies, target size 75) at the default           *)
(* contamination; the populations here have the same shape on a smaller    *)
(* scale.                                                                  *)
ScenarioB ==
    /\ Sampled
    /\ config.contamination = DefaultContamination
    /\ Cardinality(Anomalies) > config.target_sample_size
    /\ config.target_sample_size > 0

AnomaliesCoverPopulation ==
    /\ \A i \in 1..Len(cleaned) : \E j \in Anomalies : cleaned[j].severity = cleaned[i].severity
    /\ \A i \in 1..Len(cleaned) :
          \E j \in Anomalies : TimePeriod(cleaned[j].detected_at) = TimePeriod(cleaned[i].detected_at)
    /\ \A i \in 1..Len(cleaned) : \E j \in Anomalies : cleaned[j].officer_id = cleaned[i].officer_id

C15_CompressionRatio ==
    Sampled =>
        /\ \A j, k \in 1..Len(sample.selected) :
              sample.selected[j] = sample.selected[k] => j = k
        /\ Selected \subseteq 1..Len(cleaned)
        /\ Len(sample.selected) >= 1
        /\ Len(sample.selected) <= Len(cleaned)
        /\ pc = "done" =>
              /\ payload.ml_summary.original_count = Len(cleaned)
              /\ payload.ml_summary.selected_count = Len(payload.deviations)
              /\ payload.ml_summary.selected_count = Len(sample.selected)
              /\ payload.ml_summary.compression_ratio * Len(sample.selected) <= 10 * Len(cleaned)
              /\ (payload.ml_summary.compression_ratio + 1) * Len(sample.selected) > 10 * Len(cleaned)
              /\ payload.ml_summary.compression_ratio >= 10

(* A response with a sample of two of three deviations: ratio 1.5 *)
C15_Witness ==
    /\ pc = "done"
    /\ ml.ml_applied
    /\ Len(cleaned) = 3
    /\ Len(sample.selected) = 2
    /\ payload.ml_summary.compression_ratio = 15

----------------------------------------------------------------------------
(* Properties of the cleaning report (SpecClean) *)

----------------------------------------------------------------------------
(* Properties of the timing check (SpecBatch) *)

TimingOf(case_id, severity) ==
    SelectSeq(OfCase(deviations, case_id),
              LAMBDA d : d.deviation_type = "timing_violation" /\ d.severity = severity)

----------------------------------------------------------------------------
(* Properties of severity validation (SpecClean) *)

WithRequiredFields ==
    {i \in 1..Len(deviations) :
        /\ deviations[i].case_id # Null /\ deviations[i].officer_id # Null
        /\ deviations[i].deviation_type # Null /\ deviations[i].description # Null}

(* C20: after cleaning every severity is low, medium, high or critical:    *)
(* each cleaned deviation comes from a raw record whose severity was       *)
(* already a level, or was the synonym "crit" of critical, or was          *)
(* unrecognized and became "medium"; every raw record whose severity was   *)
(* not a level is counted in the report.                                   *)
C20_SeverityVocabulary ==
    pc = "cleaned" =>
        /\ \A k \in 1..Len(cleaned) :
              /\ cleaned[k].severity \in {"low", "medium", "high", "critical"}
              /\ \E i \in WithRequiredFields :
                    /\ deviations[i].case_id = cleaned[k].case_id
                    /\ deviations[i].officer_id = cleaned[k].officer_id
                    /\ \/ deviations[i].severity = cleaned[k].severity
                       \/ deviations[i].severity = "crit" /\ cleaned[k].severity = "critical"
                       \/ /\ deviations[i].severity \notin {"low", "medium", "high", "critical", "crit"}
                          /\ cleaned[k].severity = "medium"
        /\ report.invalid_types_fixed
              >= Cardinality({i \in WithRequiredFields :
                                 deviations[i].severity \notin {"low", "medium", "high", "critical"}})
        /\ (\E i \in WithRequiredFields :
                deviations[i].severity \notin {"low", "medium", "high", "critical"})
              => report.invalid_types_fixed > 0

(* A raw set with the unrecognized severity "urgent" and the synonym       *)
(* "crit", cleaned to one medium and one critical deviation                *)
C20_Witness ==
    /\ pc = "cleaned"
    /\ \E i \in WithRequiredFields : deviations[i].severity = "urgent"
    /\ \E i \in WithRequiredFields : deviations[i].severity = "crit"
    /\ \E k \in 1..Len(cleaned) : cleaned[k].severity = "medium"
    /\ \E k \in 1..Len(cleaned) : cleaned[k].severity = "critical"
    /\ report.invalid_types_fixed = 2

----------------------------------------------------------------------------
(* SpecWorkers: the cases of one detection request validated by concurrent *)
(* workers that share the read-only rules; their results are folded into   *)
(* the merged collection by a single writer, and the global statistics are *)
(* computed once every case has been merged.                               *)

(* The cases of the request, from its well-formed logs *)
WorkerCases == Range(Cases(ValidLogs(logs)))

(* A task that validates the whole batch and keeps the case's deviations   *)
(* together with those of the cases before it                              *)
CaseDeviationsCrossCase(ls, rs, case_id) ==
    LET all == DetectAll(ls, rs)
        first == Cases(ValidLogs(ls))[1]
    IN SelectSeq(all, LAMBDA d : d.case_id \in {case_id, first})

(* One worker's task: both validators over the logs of one case *)
CaseDeviations(ls, rs, case_id) == DetectAll(CaseLogs(ValidLogs(ls), case_id), rs)

(* The synchronization point: every per-case result has been merged *)
AllMerged(positions) == \A c \in DOMAIN positions : positions[c] = "merged"

(* A worker validates one pending case *)
ValidateCase(case_id) ==
    /\ pc[case_id] = "pending"
    /\ report' = [report EXCEPT ![case_id] = CaseDeviations(logs, rules, case_id)]
    /\ pc' = [pc EXCEPT ![case_id] = "validated"]
    /\ UNCHANGED <<sops, now, rules, logs, deviations, cleaned, recleaned, config, stats, ml, sample, payload>>

(* The single writer folds one per-case result into the merged collection *)
MergeCase(case_id) ==
    /\ pc[case_id] = "validated"
    /\ deviations' = deviations \o report[case_id]
    /\ pc' = [pc EXCEPT ![case_id] = "merged"]
    /\ UNCHANGED <<sops, now, rules, logs, cleaned, report, recleaned, config, stats, ml, sample, payload>>

(* Global statistics over the merged collection *)
ComputeStatistics ==
    /\ AllMerged(pc)
    /\ stats = None
    /\ stats' = Analyze(deviations)
    /\ UNCHANGED <<sops, now, pc, rules, logs, deviations, cleaned, report, recleaned, config, ml, sample, payload>>

InitWorkers ==
    /\ rules \in BatchRuleInputs
    /\ logs \in BatchLogInputs
    /\ pc = [c \in WorkerCases |-> "pending"]
    /\ report = [c \in WorkerCases |-> <<>>]
    /\ deviations = <<>>
    /\ stats = None
    /\ cleaned = None /\ recleaned = None /\ config = None
    /\ ml = None /\ sample = None /\ payload = None /\ sops = None /\ now = None

NextWorkers ==
    \/ \E c \in DOMAIN pc : ValidateCase(c)
    \/ \E c \in DOMAIN pc : MergeCase(c)
    \/ ComputeStatistics

SpecWorkers == InitWorkers /\ [][NextWorkers]_vars

(* Number of occurrences of d in ds *)
Occurrences(ds, d) == Cardinality({i \in 1..Len(ds) : ds[i] = d})

(* The two collections hold the same deviations the same number of times *)
SameCollection(a, b) ==
    /\ Len(a) = Len(b)
    /\ \A d \in Range(a) \cup Range(b) : Occurrences(a, d) = Occurrences(b, d)

----------------------------------------------------------------------------
(* SpecPatterns: workflow.controller.js analyzePatterns over the Deviation *)
(* table as analysis runs add rows to it.  A row is identified by its id;  *)
(* rows are created one after the other, so detected_at grows with the id. *)

(* findAll({ order: [['detected_at', 'DESC']], limit: 50 }) *)
PatternLimit == 50

(* Rows the table may hold, and rows one analysis run may add *)
MaxStored == 52
MaxPerRun == 3

StoredRow(id) == [id |-> id, detected_at |-> id]

(* The rows ordered by detected_at, most recent first *)
OrderByDetectedAtDesc(table) == Reverse(table)

(* Deviation.findAll of analyzePatterns *)
RecentDeviations(table) ==
    SubSeq(OrderByDetectedAtDesc(table), 1, Min(PatternLimit, Len(table)))

(* analyzeWorkflow stores the deviations of a run, one row each *)
StoreDeviations ==
    /\ \E k \in 1..MaxPerRun :
          /\ Len(deviations) + k <= MaxStored
          /\ deviations' = deviations \o
                 [i \in 1..k |-> StoredRow(Len(deviations) + i)]
    /\ pc' = "stored"
    /\ UNCHANGED <<sops, now, rules, logs, cleaned, report, recleaned, config, stats, ml, sample, payload>>

(* POST /workflows/analyze-patterns *)
AnalyzePatterns ==
    /\ payload' =
          IF Len(RecentDeviations(deviations)) = 0
          THEN [message |-> "No deviations found for pattern analysis"]
          ELSE [deviations_analyzed |-> Len(RecentDeviations(deviations)),
                sent |-> {d.id : d \in Range(RecentDeviations(deviations))}]
    /\ pc' = "analyzed"
    /\ UNCHANGED <<sops, now, rules, logs, deviations, cleaned, report, recleaned, config, stats, ml, sample>>

InitPatterns ==
    /\ pc = "stored"
    /\ deviations = <<>>
    /\ payload = None
    /\ rules = None /\ logs = None
    /\ cleaned = None /\ report = None /\ recleaned = None
    /\ config = None /\ stats = None /\ ml = None /\ sample = None /\ sops = None /\ now = None

NextPatterns == StoreDeviations \/ AnalyzePatterns

SpecPatterns == InitPatterns /\ [][NextPatterns]_vars

(* C22: analyzePatterns sends every stored deviation to the pattern        *)
(* analysis service: whenever it has answered for a non-empty table, the   *)
(* deviations it sent are all the rows of the table, however many there    *)
(* are.                                                                    *)
C22_AllDeviationsSent ==
    (pc = "analyzed" /\ deviations # <<>>) =>
        /\ payload.sent = {d.id : d \in Range(deviations)}
        /\ payload.deviations_analyzed = Len(deviations)

----------------------------------------------------------------------------
(* The backend database: WorkflowLog, SOPRule and Deviation tables *)

(* A WorkflowLog row; the rows of one upload share uploaded_at, which      *)
(* identifies the workflow file (listWorkflowFiles, deleteWorkflowFile).   *)
WorkflowRow(log, uploaded_at) ==
    [case_id |-> log.case_id, officer_id |-> log.officer_id,
     step_name |-> log.step_name, timestamp |-> log.timestamp,
     is_synthetic |-> FALSE, uploaded_at |-> uploaded_at]

WorkflowRows(file, uploaded_at) ==
    [i \in 1..Len(file) |-> WorkflowRow(file[i], uploaded_at)]

(* An SOPRule row *)
RuleRow(rule, sop_id) ==
    [id |-> rule.id, sop_id |-> sop_id, rule_type |-> rule.rule_type,
     rule_description |-> rule.step_name, step_number |-> rule.step_number]

(* The rules extracted from the two SOP documents *)
SopIds == {1, 2}

SopRules(sop_id) ==
    IF sop_id = 1
    THEN <<RuleRow(SeqRule(1, AR, 1), 1), RuleRow(SeqRule(2, DV, 2), 1)>>
    ELSE <<RuleRow(SeqRule(3, CC, 3), 2), RuleRow(ApprovalRule, 2)>>

(* order: [['case_id', 'ASC'], ['timestamp', 'ASC']] *)
OrderByCaseAndTimestamp(rows) ==
    SortByTimestamp(SelectSeq(rows, LAMBDA l : l.case_id = CaseId))
    \o SortByTimestamp(SelectSeq(rows, LAMBDA l : l.case_id = OtherCaseId))

(* WorkflowLog.findAll({ where: { is_synthetic: false }, order }) *)
AllLogs(rows) == OrderByCaseAndTimestamp(SelectSeq(rows, LAMBDA l : ~l.is_synthetic))

(* The logs of one workflow file only *)
LogsOfFile(rows, file_id) ==
    OrderByCaseAndTimestamp(
        SelectSeq(rows, LAMBDA l : ~l.is_synthetic /\ l.uploaded_at = file_id))

(* The rules of one SOP only *)
RulesOfSop(rows, sop_id) == SelectSeq(rows, LAMBDA r : r.sop_id = sop_id)

(* formattedLogs, formattedRules: the fields sent to the AI service *)
FormatLogs(rows) ==
    [i \in 1..Len(rows) |->
        [case_id |-> rows[i].case_id, officer_id |-> rows[i].officer_id,
         step_name |-> rows[i].step_name, timestamp |-> rows[i].timestamp]]

FormatRules(rows) ==
    [i \in 1..Len(rows) |->
        [id |-> rows[i].id, rule_type |-> rows[i].rule_type,
         step_name |-> rows[i].rule_description, step_number |-> rows[i].step_number]]

(* Deviation.create: the row stored for a detected deviation.  The logs of *)
(* these specifications carry no notes.                                    *)
StoredDeviation(dev, id, detected_at) ==
    [id |-> id, case_id |-> dev.case_id, officer_id |-> dev.officer_id,
     deviation_type |-> dev.deviation_type, rule_id |-> Null,
     severity |-> dev.severity, description |-> dev.description,
     detected_at |-> detected_at, notes |-> Null]

(* The violation a stored row records *)
Violation(row) ==
    [case_id |-> row.case_id, officer_id |-> row.officer_id,
     deviation_type |-> row.deviation_type, severity |-> row.severity,
     description |-> row.description]

Violations(rows) == [i \in 1..Len(rows) |-> Violation(rows[i])]

(* The severity summary of the analyzeWorkflow response *)
SeveritySummary(rows) ==
    [lv \in SeverityLevels |-> Cardinality({i \in 1..Len(rows) : rows[i].severity = lv})]

(* workflowAPI.analyze: the request built from the selection *)
AnalyzeRequest(selectedSop, selectedWorkflow) ==
    [method |-> "POST", path |-> "/workflows/analyze", body |-> None]

(* Analysis runs and uploads a behaviour may hold *)
MaxClock == 3

(* POST /workflows/analyze *)
AnalyzeWorkflow ==
    /\ now < MaxClock
    /\ now' = now + 1
    /\ IF Len(rules) = 0
       THEN /\ payload' = [status |-> 400, message |-> "No SOP rules found"]
            /\ UNCHANGED deviations
       ELSE LET detected == DetectAll(FormatLogs(AllLogs(logs)), FormatRules(rules))
                saved == [i \in 1..Len(detected) |->
                             StoredDeviation(detected[i], Len(deviations) + i, now)]
            IN /\ deviations' = deviations \o saved
               /\ payload' = [status |-> 200,
                              total_deviations |-> Len(saved),
                              deviations |-> saved,
                              summary |-> SeveritySummary(saved)]
    /\ pc' = "analyzed"
    /\ UNCHANGED <<sops, rules, logs, cleaned, report, recleaned, config, stats, ml, sample>>

(* Nothing selected in the navigation bar *)
NoSelection == 0

(* AnalyzeButton.handleAnalyze: enabled once an SOP and a workflow log are *)
(* selected; it posts the analysis request.                                *)
HandleAnalyze ==
    /\ config.selectedSop # NoSelection /\ config.selectedWorkflow # NoSelection
    /\ AnalyzeRequest(config.selectedSop, config.selectedWorkflow).body = None
    /\ AnalyzeWorkflow

(* The risk score of an officer's stored deviations *)
RiskEntry(officer_id, rows) ==
    LET own == SelectSeq(rows, LAMBDA d : d.officer_id = officer_id)
        count == SeveritySummary(own)
    IN [officer_id |-> officer_id,
        total_deviations |-> Len(own),
        critical |-> count["critical"], high |-> count["high"],
        medium |-> count["medium"], low |-> count["low"],
        risk_score |-> count["critical"] * 10 + count["high"] * 5
                       + count["medium"] * 2 + count["low"] * 1]

(* The officers created by the uploads *)
Officers(rows) == {rows[i].officer_id : i \in 1..Len(rows)}

(* riskMatrix.sort((a, b) => b.risk_score - a.risk_score) *)
RiskMatrix(officers, rows) ==
    LET entries == {RiskEntry(o, rows) : o \in officers}
    IN CHOOSE s \in [1..Cardinality(entries) -> entries] :
          /\ Range(s) = entries
          /\ \A i \in 1..(Len(s) - 1) : s[i].risk_score >= s[i + 1].risk_score

(* GET /behavioral/risk-matrix *)
GetRiskMatrix ==
    /\ payload' = [status |-> 200, risk_matrix |-> RiskMatrix(Officers(logs), deviations)]
    /\ pc' = "risk"
    /\ UNCHANGED <<sops, now, rules, logs, deviations, cleaned, report, recleaned, config, stats, ml, sample>>

(* SpecAnalysis: analysis runs over a database that holds one or two       *)
(* workflow files and the rules of the processed SOPs, with one SOP and    *)
(* one workflow file selected in the navigation bar.                       *)
AnalysisLogInputs ==
    {WorkflowRows(a, 1) \o WorkflowRows(b, 2) :
        a \in CaseEvents(CaseId), b \in CaseEvents(OtherCaseId) \cup {<<>>}}

AnalysisRuleInputs == {<<>>, SopRules(1), SopRules(1) \o SopRules(2)}

InitAnalysis ==
    /\ pc = "idle"
    /\ now = 0
    /\ logs \in AnalysisLogInputs
    /\ rules \in AnalysisRuleInputs
    /\ config \in {[selectedSop |-> s, selectedWorkflow |-> f] :
                      s \in {NoSelection, 1} \cup {r.sop_id : r \in Range(rules)},
                      f \in {l.uploaded_at : l \in Range(logs)}}
    /\ deviations = <<>>
    /\ payload = None
    /\ cleaned = None /\ report = None /\ recleaned = None
    /\ stats = None /\ ml = None /\ sample = None /\ sops = None

NextAnalysis == HandleAnalyze \/ GetRiskMatrix

SpecAnalysis == InitAnalysis /\ [][NextAnalysis]_vars

(* The deviations of the selected workflow file under the selected SOP *)
SelectedDeviations ==
    DetectAll(FormatLogs(LogsOfFile(logs, config.selectedWorkflow)),
              FormatRules(RulesOfSop(rules, config.selectedSop)))

(* C23: an analysis started with one SOP and one workflow log selected     *)
(* evaluates only the selected file's events against only the selected     *)
(* SOP's rules: every deviation stored by the run belongs to a case of the *)
(* selected workflow file, and the stored deviations are those of the      *)
(* selected file under the rules of the selected SOP.                      *)
C23_OnlySelectedAnalyzed ==
    (pc = "analyzed" /\ now = 1 /\ payload.status = 200) =>
        /\ \A d \in Range(deviations) :
              d.case_id \in {l.case_id : l \in Range(LogsOfFile(logs, config.selectedWorkflow))}
        /\ Violations(deviations) = [i \in 1..Len(SelectedDeviations) |->
               Violation(StoredDeviation(SelectedDeviations[i], i, 0))]

(* The deviations of the database's logs under its rules, as one analysis  *)
(* run stores them                                                         *)
OneRunDeviations ==
    LET detected == DetectAll(FormatLogs(AllLogs(logs)), FormatRules(rules))
    IN [i \in 1..Len(detected) |-> StoredDeviation(detected[i], i, 0)]

(* C30: re-running analyzeWorkflow on unchanged logs and rules leaves the  *)
(* stored deviations unchanged: after any number of runs the Deviation     *)
(* table holds the violations of one run, each once, so the total, the     *)
(* per-severity counts and the officers' risk scores are those after one   *)
(* run.                                                                    *)
C30_RerunLeavesDeviationsUnchanged ==
    (now >= 1 /\ Len(rules) > 0) =>
        /\ Violations(deviations) = Violations(OneRunDeviations)
        /\ Len(deviations) = Len(OneRunDeviations)
        /\ SeveritySummary(deviations) = SeveritySummary(OneRunDeviations)
        /\ pc = "risk" =>
              payload.risk_matrix = RiskMatrix(Officers(logs), OneRunDeviations)

----------------------------------------------------------------------------
(* SpecBackend: workflow files are uploaded, analysed and deleted, and the *)
(* compliance rate is read, in any order.                                  *)

(* The files a user uploads: the events of one case, all rows valid *)
UploadInputs ==
    {<<CaseLog(case_id, AR, 0)>> : case_id \in {CaseId, OtherCaseId}}
    \cup {<<CaseLog(case_id, AR, 0), CaseLog(case_id, FA, 60)>> :
              case_id \in {CaseId, OtherCaseId}}

(* POST /workflows/upload with a file whose rows are all saved; the rows   *)
(* take the time of the upload as uploaded_at.                             *)
UploadWorkflowFile ==
    /\ now < MaxClock
    /\ \E file \in UploadInputs :
          /\ logs' = logs \o WorkflowRows(file, now)
          /\ payload' = [status |-> 201, total_logs |-> Len(file)]
    /\ now' = now + 1
    /\ pc' = "uploaded"
    /\ UNCHANGED <<sops, rules, deviations, cleaned, report, recleaned, config, stats, ml, sample>>

(* DELETE /workflows/:id: the logs of one upload are destroyed *)
DeleteWorkflowFile ==
    /\ \E id \in 0..(MaxClock - 1) :
          LET kept == SelectSeq(logs, LAMBDA l : l.uploaded_at # id)
              deleted == Len(logs) - Len(kept)
          IN /\ logs' = kept
             /\ payload' = IF deleted = 0
                           THEN [status |-> 404, message |-> "Workflow file not found"]
                           ELSE [status |-> 200, deleted_count |-> deleted]
    /\ pc' = "deleted"
    /\ UNCHANGED <<sops, now, rules, deviations, cleaned, report, recleaned, config, stats, ml, sample>>

(* COUNT(DISTINCT case_id) *)
DistinctCases(rows) == Cardinality({rows[i].case_id : i \in 1..Len(rows)})

(* ((compliant / total) * 100).toFixed(2), in hundredths of a percent *)
ToFixed2(numerator, denominator) ==
    (2 * 10000 * numerator + denominator) \div (2 * denominator)

(* getComplianceRate for a request without a date range *)
ComplianceRate(log_rows, deviation_rows) ==
    LET totalCaseCount == DistinctCases(log_rows)
        deviatedCaseCount == DistinctCases(deviation_rows)
        compliantCaseCount == totalCaseCount - deviatedCaseCount
    IN [total_cases |-> totalCaseCount,
        compliant_cases |-> compliantCaseCount,
        deviated_cases |-> deviatedCaseCount,
        compliance_rate |-> IF totalCaseCount > 0
                            THEN ToFixed2(compliantCaseCount, totalCaseCount)
                            ELSE 10000]

(* GET /analytics/compliance-rate *)
GetComplianceRate ==
    /\ payload' = ComplianceRate(logs, deviations)
    /\ pc' = "compliance"
    /\ UNCHANGED <<sops, now, rules, logs, deviations, cleaned, report, recleaned, config, stats, ml, sample>>

InitBackend ==
    /\ pc = "idle"
    /\ now = 0
    /\ logs = <<>>
    /\ rules \in {SopRules(1), SopRules(1) \o SopRules(2)}
    /\ deviations = <<>>
    /\ payload = None
    /\ config = None
    /\ cleaned = None /\ report = None /\ recleaned = None
    /\ stats = None /\ ml = None /\ sample = None /\ sops = None

NextBackend ==
    UploadWorkflowFile \/ AnalyzeWorkflow \/ DeleteWorkflowFile \/ GetComplianceRate

SpecBackend == InitBackend /\ [][NextBackend]_vars

(* C29: after any sequence of log uploads, analysis runs and workflow-file *)
(* deletions, getComplianceRate reports compliant_cases >= 0,              *)
(* deviated_cases <= total_cases and a compliance_rate between 0 and 100.  *)
C29_ComplianceRateBounds ==
    pc = "compliance" =>
        /\ payload.compliant_cases >= 0
        /\ payload.deviated_cases <= payload.total_cases
        /\ payload.compliance_rate >= 0
        /\ payload.compliance_rate <= 10000

----------------------------------------------------------------------------
(* SpecSOP: sop.controller.js processSOP.  Requests for the same SOP are   *)
(* served concurrently: a handler runs until its next await, where another *)
(* handler may run.  A parse, an extraction and every database write can   *)
(* fail.                                                                   *)

(* Requests for the SOP, first attempts and retries alike *)
SopRequests == {1, 2}

(* The rules the AI service extracts from the SOP document *)
ExtractedRules == <<SeqRule(1, AR, 1), SeqRule(2, DV, 2)>>

(* SOPRule.create for an extracted rule *)
CreatedRule(rule, created_at) ==
    [sop_id |-> 1, rule_type |-> rule.rule_type, rule_description |-> rule.step_name,
     step_number |-> rule.step_number, created_at |-> created_at]

(* errorResponse / successResponse of request r *)
SopResponse(r, status) == [payload EXCEPT ![r] = status]

(* findByPk, then the tests on the row read: an SOP already processed is   *)
(* refused                                                                 *)
StartProcessing(r) ==
    /\ pc[r] = "idle"
    /\ IF sops.processed
       THEN /\ pc' = [pc EXCEPT ![r] = "done"]
            /\ payload' = SopResponse(r, 400)
       ELSE /\ pc' = [pc EXCEPT ![r] = "initialization"]
            /\ UNCHANGED payload
    /\ UNCHANGED <<sops, now, rules, logs, deviations, cleaned, report, recleaned, config, stats, ml, sample>>

(* await sop.update({ status: 'processing' }) *)
MarkProcessing(r) ==
    /\ pc[r] = "initialization"
    /\ \/ /\ sops' = [sops EXCEPT !.status = "processing"]
          /\ pc' = [pc EXCEPT ![r] = "parsing"]
          /\ report' = [report EXCEPT ![r] = "parsing"]
       \/ /\ pc' = [pc EXCEPT ![r] = "failing"]
          /\ UNCHANGED <<sops, report>>
    /\ UNCHANGED <<now, rules, logs, deviations, cleaned, recleaned, config, stats, ml, sample, payload>>

(* Step 1: aiService.parseSOP; an empty text is an error *)
ParseSOP(r) ==
    /\ pc[r] = "parsing"
    /\ \/ /\ pc' = [pc EXCEPT ![r] = "rule_extraction"]
          /\ report' = [report EXCEPT ![r] = "rule_extraction"]
       \/ /\ pc' = [pc EXCEPT ![r] = "failing"]
          /\ UNCHANGED report
    /\ UNCHANGED <<sops, now, rules, logs, deviations, cleaned, recleaned, config, stats, ml, sample, payload>>

(* Step 2: aiService.extractRules; no rule is an error *)
ExtractRules(r) ==
    /\ pc[r] = "rule_extraction"
    /\ \/ /\ pc' = [pc EXCEPT ![r] = "saving_rules"]
          /\ report' = [report EXCEPT ![r] = "saving_rules"]
       \/ /\ pc' = [pc EXCEPT ![r] = "failing"]
          /\ UNCHANGED report
    /\ UNCHANGED <<sops, now, rules, logs, deviations, cleaned, recleaned, config, stats, ml, sample, payload>>

(* Step 3: Promise.all of one SOPRule.create per extracted rule.  The      *)
(* creates that succeed store their row even when another one fails.       *)
SaveRules(r) ==
    /\ pc[r] = "saving_rules"
    /\ \E created \in SUBSET (1..Len(ExtractedRules)) :
          /\ rules' = rules \o
                 [i \in 1..Cardinality(created) |->
                     CreatedRule(ExtractedRules[SortedSeq(created)[i]], now)]
          /\ IF created = 1..Len(ExtractedRules)
             THEN /\ pc' = [pc EXCEPT ![r] = "finalizing"]
                  /\ report' = [report EXCEPT ![r] = "finalizing"]
             ELSE /\ pc' = [pc EXCEPT ![r] = "failing"]
                  /\ UNCHANGED report
    /\ now' = now + 1
    /\ UNCHANGED <<sops, logs, deviations, cleaned, recleaned, config, stats, ml, sample, payload>>

(* Step 4: sop.update({ processed: true, status: 'completed' }) and the    *)
(* success response                                                        *)
Finalize(r) ==
    /\ pc[r] = "finalizing"
    /\ \/ /\ sops' = [sops EXCEPT !.processed = TRUE, !.status = "completed"]
          /\ pc' = [pc EXCEPT ![r] = "done"]
          /\ payload' = SopResponse(r, 200)
       \/ /\ pc' = [pc EXCEPT ![r] = "failing"]
          /\ UNCHANGED <<sops, payload>>
    /\ UNCHANGED <<now, rules, logs, deviations, cleaned, report, recleaned, config, stats, ml, sample>>

(* catch: the SOP is read again and marked failed; a failure of that       *)
(* update is logged; the error response follows in both cases.             *)
FailProcessing(r) ==
    /\ pc[r] = "failing"
    /\ \/ sops' = [sops EXCEPT !.status = "failed"]
       \/ UNCHANGED sops
    /\ pc' = [pc EXCEPT ![r] = "done"]
    /\ payload' = SopResponse(r, 500)
    /\ UNCHANGED <<now, rules, logs, deviations, cleaned, report, recleaned, config, stats, ml, sample>>

InitSOP ==
    /\ sops = [processed |-> FALSE, status |-> "uploaded"]
    /\ rules = <<>>
    /\ now = 0
    /\ pc = [r \in SopRequests |-> "idle"]
    /\ report = [r \in SopRequests |-> "initialization"]
    /\ payload = [r \in SopRequests |-> 0]
    /\ logs = None /\ deviations = None /\ cleaned = None /\ recleaned = None
    /\ config = None /\ stats = None /\ ml = None /\ sample = None

NextSOP ==
    \E r \in SopRequests :
        \/ StartProcessing(r)
        \/ MarkProcessing(r)
        \/ ParseSOP(r)
        \/ ExtractRules(r)
        \/ SaveRules(r)
        \/ Finalize(r)
        \/ FailProcessing(r)

SpecSOP == InitSOP /\ [][NextSOP]_vars

(* No request is being served *)
Quiescent == \A r \in SopRequests : pc[r] \in {"idle", "done"}

(* Request r has set the SOP's status to 'processing' *)
SetProcessing(r) == report[r] # "initialization"

(* C25: every processSOP request that sets the SOP's status to             *)
(* 'processing' leaves it, once the responses are sent, in status          *)
(* 'completed' with processed = true or in status 'failed' with            *)
(* processed = false, whichever step fails (the failure-status update      *)
(* included); the SOP is never left 'processing', and processed = true     *)
(* implies status 'completed'.                                             *)
C25_SettledAfterResponse ==
    /\ (Quiescent /\ \E r \in SopRequests : pc[r] = "done" /\ SetProcessing(r)) =>
          \/ sops.status = "completed" /\ sops.processed
          \/ sops.status = "failed" /\ ~sops.processed
    /\ Quiescent => (sops.processed => sops.status = "completed")

(* C27: after any sequence or interleaving of processSOP requests for the  *)
(* same SOP, the rules stored for it are those of one extraction: no       *)
(* extracted rule is stored twice, and all stored rules were saved by the  *)
(* same request.                                                           *)
C27_RulesStoredOnce ==
    Quiescent =>
        /\ \A i, j \in 1..Len(rules) :
              rules[i].rule_description = rules[j].rule_description => i = j
        /\ \A i, j \in 1..Len(rules) : rules[i].created_at = rules[j].created_at

----------------------------------------------------------------------------
(* SpecUpload: one workflow-log upload, by uploadWithMapping (with a       *)
(* confirmed column mapping) or by uploadWorkflowLogs (flexible column     *)
(* names).  The rows of the file are handled one after the other.          *)

(* Rows of an uploaded file *)
MaxRows == 3

(* A value JavaScript treats as false: undefined, null or the empty string *)
Falsy(v) == v \in {Null, ""}

(* String.prototype.trim on the notes of the files *)
Trim(text) == IF text = " " THEN "" ELSE text

(* validateMapping: core required fields *)
RequiredSystemFields == {"case_id", "officer_id", "step_name", "action", "timestamp"}

SystemFields == RequiredSystemFields \cup {"notes"}

(* Confirmed mappings, CSV column -> system field: the five columns of the *)
(* documented upload, with and without the notes column, and the same      *)
(* with an action column.                                                  *)
DocumentedMapping ==
    [Loan_ID |-> "case_id", User |-> "officer_id", Activity |-> "step_name",
     Timestamp |-> "timestamp", Notes |-> "notes"]

MappingInputs ==
    {DocumentedMapping,
     [Loan_ID |-> "case_id", User |-> "officer_id", Activity |-> "step_name",
      Timestamp |-> "timestamp", Action |-> "action", Notes |-> "notes"],
     [Loan_ID |-> "case_id", User |-> "officer_id", Activity |-> "step_name",
      Timestamp |-> "timestamp", Action |-> "action"]}

(* A request without a mapping (uploadWorkflowLogs) *)
NoMapping == [col \in {} |-> ""]

MappedFields(mapping) == {mapping[col] : col \in DOMAIN mapping}

(* columnMappingService.validateMapping *)
ValidateMapping(mapping) ==
    LET missingFields == RequiredSystemFields \ MappedFields(mapping)
    IN [isValid |-> missingFields = {}, missingFields |-> missingFields]

(* columnMappingService.applyMapping, for one row *)
ApplyMapping(row, mapping) ==
    [field \in SystemFields |->
        IF field \in MappedFields(mapping)
        THEN row[CHOOSE col \in DOMAIN mapping : mapping[col] = field]
        ELSE Null]

(* columnMappingService.detectNotesColumn *)
DetectNotesColumn(mapping) ==
    IF \E col \in DOMAIN mapping : mapping[col] \in {"notes", "comments"}
    THEN CHOOSE col \in DOMAIN mapping : mapping[col] \in {"notes", "comments"}
    ELSE Null

(* getColumnValue of uploadWorkflowLogs: the first of the named columns    *)
(* with a value                                                            *)
GetColumnValue(row, columns) ==
    LET found == SelectSeq(columns, LAMBDA col : ~Falsy(row[col]))
    IN IF Len(found) > 0 THEN row[found[1]] ELSE Null

(* The row as uploadWorkflowLogs reads it *)
FlexibleRow(row) ==
    [case_id |-> GetColumnValue(row, <<"Loan_ID">>),
     officer_id |-> GetColumnValue(row, <<"User">>),
     step_name |-> GetColumnValue(row, <<"Activity", "Action">>),
     action |-> GetColumnValue(row, <<"Action">>),
     timestamp |-> GetColumnValue(row, <<"Timestamp">>),
     notes |-> Null]

(* The timestamp of the rows of the files *)
ValidTimestamp == "2024-01-15T09:00:00"

(* The rows of a file.  The row at position i has the i-th step name and   *)
(* the i-th note, so that a log tells the row it was created from.         *)
StepAt(i) == "Step " \o ToString(i)
NoteAt(i) == "note " \o ToString(i)

CsvRow(i, case_id, action, notes) ==
    [Loan_ID |-> case_id, User |-> OfficerId, Activity |-> StepAt(i),
     Timestamp |-> ValidTimestamp, Action |-> action, Notes |-> notes]

CsvRowsAt(i) ==
    {CsvRow(i, CaseId, "", notes) : notes \in {NoteAt(i), " ", ""}}
    \cup {CsvRow(i, "", "", NoteAt(i)), CsvRow(i, CaseId, "approved", NoteAt(i))}

CsvInputs ==
    UNION {{f \in [1..n -> UNION {CsvRowsAt(i) : i \in 1..n}] :
               \A i \in 1..n : f[i] \in CsvRowsAt(i)} : n \in 0..MaxRows}

(* The test on the required fields of a row *)
MissingRequiredField(row) ==
    Falsy(row.case_id) \/ Falsy(row.officer_id) \/ Falsy(row.step_name) \/ Falsy(row.timestamp)

(* WorkflowLog.create: the row stored, with the defaults of the handler *)
CreatedLog(row) ==
    [case_id |-> row.case_id, officer_id |-> row.officer_id,
     step_name |-> row.step_name,
     action |-> IF Falsy(row.action) THEN "completed" ELSE row.action,
     timestamp |-> row.timestamp, notes |-> Null]

(* WorkflowLog.create throws for the row at position i: the row for which  *)
(* the database refuses the insert, if any, is part of the request's       *)
(* input.                                                                  *)
CreateFails(i) == i \in config.create_fails

(* The errors list after a row that is not saved, when only the rows with  *)
(* a missing field are recorded                                            *)
RecordErrorMissingOnly(errors, i, row) ==
    IF MissingRequiredField(row)
    THEN Append(errors, [row |-> i + 1, message |-> "Missing required field"])
    ELSE errors

(* errors.push for the row at position i of the file that is not saved;   *)
(* the error names the line of the file, the header being line 1.         *)
RecordError(errors, i, row) ==
    Append(errors,
           [row |-> i + 1,
            message |-> IF MissingRequiredField(row)
                        THEN "Missing required field" ELSE "create failed"])

(* notesService.extractAndStoreNotesFromCSV: the i-th saved log takes the  *)
(* notes of the i-th row of the file                                       *)
ExtractAndStoreNotesFromCSV(savedLogs, csvData, notesColumn) ==
    [i \in 1..Len(savedLogs) |->
        IF i <= Len(csvData) /\ ~Falsy(csvData[i][notesColumn])
                             /\ Trim(csvData[i][notesColumn]) # ""
        THEN [savedLogs[i] EXCEPT !.notes = Trim(csvData[i][notesColumn])]
        ELSE savedLogs[i]]

NotesCount(savedLogs, csvData, notesColumn) ==
    Cardinality({i \in 1..Min(Len(savedLogs), Len(csvData)) :
                    ~Falsy(csvData[i][notesColumn]) /\ Trim(csvData[i][notesColumn]) # ""})

(* The request is received: the mapping is validated, the file is parsed   *)
(* and its rows are transformed.                                           *)
ReceiveUpload ==
    /\ pc = "received"
    /\ IF config.handler = "uploadWithMapping" /\ ~ValidateMapping(config.mapping).isValid
       THEN /\ payload' = [status |-> 400, message |-> "Missing required fields"]
            /\ pc' = "done"
            /\ UNCHANGED report
       ELSE IF Len(config.csv) = 0
       THEN /\ payload' = [status |-> 400, message |-> "CSV file is empty"]
            /\ pc' = "done"
            /\ UNCHANGED report
       ELSE /\ report' = [rows |-> [i \in 1..Len(config.csv) |->
                                      IF config.handler = "uploadWithMapping"
                                      THEN ApplyMapping(config.csv[i], config.mapping)
                                      ELSE FlexibleRow(config.csv[i])],
                          i |-> 0, errors |-> <<>>]
            /\ pc' = "rows"
            /\ UNCHANGED payload
    /\ UNCHANGED <<sops, now, rules, logs, deviations, cleaned, recleaned, config, stats, ml, sample>>

(* One iteration of the loop over the rows *)
CreateLog ==
    /\ pc = "rows"
    /\ report.i < Len(report.rows)
    /\ LET row == report.rows[report.i + 1]
       IN IF MissingRequiredField(row) \/ CreateFails(report.i + 1)
          THEN /\ report' = [report EXCEPT !.i = @ + 1,
                                !.errors = RecordError(@, report.i + 1, row)]
               /\ UNCHANGED logs
          ELSE /\ logs' = Append(logs, CreatedLog(row))
               /\ report' = [report EXCEPT !.i = @ + 1]
    /\ UNCHANGED <<sops, now, pc, rules, deviations, cleaned, recleaned, config, stats, ml, sample, payload>>

(* After the loop: 400 when no log was saved; otherwise the notes are      *)
(* extracted and the response is sent.                                     *)
RespondUpload ==
    /\ pc = "rows"
    /\ report.i = Len(report.rows)
    /\ IF Len(logs) = 0
       THEN /\ payload' = [status |-> 400, message |-> "Failed to import any logs",
                           errors |-> report.errors]
            /\ UNCHANGED logs
       ELSE LET notesColumn == IF config.handler = "uploadWithMapping"
                               THEN DetectNotesColumn(config.mapping) ELSE Null
            IN /\ logs' = IF notesColumn # Null
                          THEN ExtractAndStoreNotesFromCSV(logs, config.csv, notesColumn)
                          ELSE logs
               /\ payload' = [status |-> 201,
                              total_logs |-> Len(logs),
                              notes_imported |-> IF notesColumn # Null
                                                 THEN NotesCount(logs, config.csv, notesColumn)
                                                 ELSE 0,
                              errors |-> report.errors]
    /\ pc' = "done"
    /\ UNCHANGED <<sops, now, rules, deviations, cleaned, report, recleaned, config, stats, ml, sample>>

InitUpload ==
    /\ pc = "received"
    /\ config \in UNION {
          {[handler |-> "uploadWithMapping", mapping |-> mp,
            csv |-> csv, create_fails |-> fails] : mp \in MappingInputs}
          \cup {[handler |-> "uploadWorkflowLogs", mapping |-> NoMapping,
                 csv |-> csv, create_fails |-> fails]}
          : csv \in CsvInputs, fails \in {{}} \cup {{i} : i \in 1..MaxRows}}
    /\ config.create_fails \subseteq 1..Len(config.csv)
    /\ logs = <<>>
    /\ report = None
    /\ payload = None
    /\ rules = None /\ deviations = None /\ cleaned = None /\ recleaned = None
    /\ stats = None /\ ml = None /\ sample = None /\ sops = None /\ now = None

NextUpload == ReceiveUpload \/ CreateLog \/ RespondUpload

SpecUpload == InitUpload /\ [][NextUpload]_vars

(* Properties of SpecUpload *)

(* The row of the file at position i can be imported: it has its required  *)
(* fields and the database accepts it                                      *)
Importable(i) ==
    /\ config.csv[i].Loan_ID # "" /\ config.csv[i].User # ""
    /\ config.csv[i].Activity # "" /\ config.csv[i].Timestamp # ""
    /\ i \notin config.create_fails

ImportableRows == {i \in 1..Len(config.csv) : Importable(i)}

(* The position in the file of the row a saved log was created from *)
RowOf(log) == CHOOSE i \in 1..MaxRows : StepAt(i) = log.step_name

(* C24: POST /api/workflows/upload-with-mapping with a confirmed mapping   *)
(* of the columns to case_id, officer_id, step_name, timestamp and notes   *)
(* (no column mapped to action) is accepted and imports the rows, each     *)
(* log's action defaulting to 'completed'.                                 *)
C24_DocumentedMappingAccepted ==
    (/\ pc = "done"
     /\ config.handler = "uploadWithMapping"
     /\ config.mapping = DocumentedMapping
     /\ ImportableRows # {}) =>
        /\ payload.status = 201
        /\ Len(logs) = Cardinality(ImportableRows)
        /\ \A k \in 1..Len(logs) : logs[k].action = "completed"

C28_NotesOfOwnRow ==
    (/\ pc = "done"
     /\ payload.status = 201
     /\ config.handler = "uploadWithMapping"
     /\ DetectNotesColumn(config.mapping) # Null) =>
        \A k \in 1..Len(logs) :
            LET note == Trim(config.csv[RowOf(logs[k])].Notes)
            IN logs[k].notes = (IF note = "" THEN Null ELSE note)

============================================================================
